---------------------------- MODULE Spec2Model ----------------------------
(***************************************************************************)
(* A model of NeoPixel.ino: the button debounce, the effect state machine  *)
(* of loop(), the effect routines and the colour wheel.                    *)
(*                                                                         *)
(* Colours are 24-bit integers 0xRRGGBB.  The pixel strip (the external    *)
(* Adafruit_NeoPixel object) is the record `strip': its buffer, the buffer *)
(* last sent to the LEDs, its brightness, and bookkeeping of the calls     *)
(* made on it since the current routine was entered.                       *)
(***************************************************************************)
EXTENDS Integers, Sequences, FiniteSets

(***************************************************************************)
(* Program constants.                                                      *)
(***************************************************************************)
NUM_PIXELS == 12
PIXEL_BRIGHTNESS == 80
COLOR_BLACK == 0
COLOR_RED == 16711680
COLOR_LIGHT_WHITE == 8355711
EFFECT_BREATHE == 0
EFFECT_RAINBOW == 1
NUM_EFFECTS == 2
BREATHE_MAX_BRIGHTNESS == 255
LOW == 0
HIGH == 1

(***************************************************************************)
(* Bounds of the model.                                                    *)
(***************************************************************************)
\* loop() iterations explored by Spec and by SpecFault
MaxTicks == 5
\* consecutive calls of a one-frame routine explored by SpecEffects
MaxCalls == 256

Levels == {LOW, HIGH}
PixelIndex == 0 .. (NUM_PIXELS - 1)

(***************************************************************************)
(* The pixel sink.                                                         *)
(*   pixels     the buffer, one colour per pixel                           *)
(*   shown      the buffer as last sent to the LEDs by show()              *)
(*   brightness the global brightness scalar                               *)
(*   flushes    show() calls since the routine was entered                 *)
(*   idx        every index passed to setPixelColor since then             *)
(*   fullFlushes  those of them made with every pixel written since the    *)
(*              show() before                                              *)
(*   dirty      the pixels written since the last show()                   *)
(***************************************************************************)
Color(r, g, b) == (r * 65536) + (g * 256) + b

Red(c) == c \div 65536

Green(c) == (c \div 256) % 256

Blue(c) == c % 256

SetPixelColor(s, n, c) ==
    [s EXCEPT !.pixels = IF n \in DOMAIN @ THEN [@ EXCEPT ![n] = c] ELSE @,
              !.idx = @ \cup {n},
              !.dirty = @ \cup {n}]

Show(s) ==
    [s EXCEPT !.shown = s.pixels,
              !.flushes = @ + 1,
              !.fullFlushes = IF s.dirty = DOMAIN s.pixels THEN @ + 1 ELSE @,
              !.dirty = {}]

SetBrightness(s, b) == [s EXCEPT !.brightness = b]

NumPixels(s) == NUM_PIXELS

\* the bookkeeping cleared when a routine is entered
Enter(s) == [s EXCEPT !.flushes = 0, !.fullFlushes = 0, !.idx = {}, !.dirty = {}]

\* the strip as constructed: an all-black buffer at full brightness
StripNew ==
    [pixels |-> [n \in PixelIndex |-> COLOR_BLACK],
     shown |-> [n \in PixelIndex |-> COLOR_BLACK],
     brightness |-> 255,
     flushes |-> 0,
     fullFlushes |-> 0,
     idx |-> {},
     dirty |-> {}]

(***************************************************************************)
(* Wheel: the parameter is a byte; the products are computed in int and    *)
(* each channel is cut to 8 bits by Color's uint8_t parameters.            *)
(***************************************************************************)
Byte(x) == x % 256

\* a wheel whose second and third bands forget to reduce the position
WheelUnreduced(wheelPos) ==
    IF wheelPos < 85
    THEN Color(Byte(wheelPos * 3), Byte(255 - (wheelPos * 3)), 0)
    ELSE IF wheelPos < 170
         THEN Color(Byte(255 - (wheelPos * 3)), 0, Byte(wheelPos * 3))
         ELSE Color(0, Byte(wheelPos * 3), Byte(255 - (wheelPos * 3)))

\* channel values whose third band fades the wrong way
WheelRawSwapped(wheelPos) ==
    IF wheelPos < 85
    THEN <<wheelPos * 3, 255 - (wheelPos * 3), 0>>
    ELSE IF wheelPos < 170
         THEN <<255 - ((wheelPos - 85) * 3), 0, (wheelPos - 85) * 3>>
         ELSE <<0, 255 - ((wheelPos - 170) * 3), (wheelPos - 170) * 3>>

\* channel values whose bands are four units wide per step
WheelRawSteep(wheelPos) ==
    IF wheelPos < 85
    THEN <<wheelPos * 4, 255 - (wheelPos * 4), 0>>
    ELSE IF wheelPos < 170
         THEN <<255 - ((wheelPos - 85) * 4), 0, (wheelPos - 85) * 4>>
         ELSE <<0, (wheelPos - 170) * 4, 255 - ((wheelPos - 170) * 4)>>

\* the three arguments Wheel computes for strip.Color, as ints, before they
\* are cut to uint8_t
WheelRaw(wheelPos) ==
    IF wheelPos < 85
    THEN <<wheelPos * 3, 255 - (wheelPos * 3), 0>>
    ELSE IF wheelPos < 170
         THEN <<255 - ((wheelPos - 85) * 3), 0, (wheelPos - 85) * 3>>
         ELSE <<0, (wheelPos - 170) * 3, 255 - ((wheelPos - 170) * 3)>>

Wheel(wheelPos) ==
    LET raw == WheelRaw(wheelPos)
    IN  Color(Byte(raw[1]), Byte(raw[2]), Byte(raw[3]))

(***************************************************************************)
(* Breathe.  The intensity 255/2.0 * (1.0 + sin(0.016 * counter)) is       *)
(* evaluated in fixed point (angles in microradians, sine by its Taylor    *)
(* polynomial at scale 10^4) and cut to an integer as the conversion to    *)
(* setBrightness's uint8_t does.  The value is exact at counter 0 and      *)
(* within 1 of the floating-point value elsewhere.                         *)
(***************************************************************************)
SinScaled(counter) ==
    LET a == 16000 * counter
        r0 == a % 6283185
        neg == r0 > 3141593
        r1 == IF neg THEN r0 - 3141593 ELSE r0
        r2 == IF r1 > 1570796 THEN 3141593 - r1 ELSE r1
        x == r2 \div 100
        x2 == (x * x) \div 10000
        t4 == 10000 - (x2 \div 72)
        t3 == 10000 - ((x2 * t4) \div 420000)
        t2 == 10000 - ((x2 * t3) \div 200000)
        t1 == 10000 - ((x2 * t2) \div 60000)
        s == (x * t1) \div 10000
    IN  IF neg THEN 0 - s ELSE s

\* an intensity rounded to the nearest integer instead of cut
BreatheIntensityRounded(counter) ==
    Byte((((BREATHE_MAX_BRIGHTNESS * 5) * (10000 + SinScaled(counter))) + 50000)
         \div 100000)

BreatheIntensity(counter) ==
    Byte(((BREATHE_MAX_BRIGHTNESS * 5) * (10000 + SinScaled(counter))) \div 100000)

\* for (i = from; i < NUM_PIXELS; i++) strip.setPixelColor(i, color);
RECURSIVE FillFrom(_, _, _)
FillFrom(s, from, color) ==
    IF from < NUM_PIXELS
    THEN FillFrom(SetPixelColor(s, from, color), from + 1, color)
    ELSE s

\* EffectBreatheInit: g_breatheCounter = 0;
BreatheCounterReset(counter) == 0

EffectBreatheInit(s) ==
    Show(SetPixelColor(FillFrom(Enter(s), 0, COLOR_BLACK), 1, COLOR_RED))

EffectBreatheStrip(s, color, counter) ==
    Show(FillFrom(SetBrightness(Enter(s), BreatheIntensity(counter)), 0, color))

\* g_breatheCounter++ on a uint16_t
BreatheCounterNext(counter) == (counter + 1) % 65536

(***************************************************************************)
(* Rainbow.                                                                *)
(***************************************************************************)
\* an init hook that leaves the counter where the last visit left it
RainbowCounterKept(counter) == counter

\* EffectRainbowInit: g_rainbowCounter = 0;
RainbowCounterReset(counter) == 0

\* an init hook that puts the configured brightness back
EffectRainbowInitBright(s) ==
    Show(SetPixelColor(
           SetPixelColor(
              FillFrom(SetBrightness(Enter(s), PIXEL_BRIGHTNESS), 0, COLOR_BLACK),
              1, COLOR_RED),
           2, COLOR_RED))

EffectRainbowInit(s) ==
    Show(SetPixelColor(
           SetPixelColor(FillFrom(Enter(s), 0, COLOR_BLACK), 1, COLOR_RED),
           2, COLOR_RED))

\* for (i = from; i < strip.numPixels(); i++)
\*     strip.setPixelColor(i, Wheel((i + g_rainbowCounter) & 255));
RECURSIVE RainbowFrom(_, _, _)
RainbowFrom(s, from, counter) ==
    IF from < NumPixels(s)
    THEN RainbowFrom(SetPixelColor(s, from, Wheel((from + counter) % 256)),
                     from + 1, counter)
    ELSE s

EffectRainbowStrip(s, counter) == Show(RainbowFrom(Enter(s), 0, counter))

\* a counter wider than a byte
RainbowCounterWide(counter) == counter + 1

\* g_rainbowCounter++ on a uint8_t
RainbowCounterNext(counter) == (counter + 1) % 256

(***************************************************************************)
(* State.                                                                  *)
(*   pc      where the sketch is: "setup", or one of the four parts of     *)
(*           loop() ("read", "advance", "init", "step"), or "call" when an *)
(*           effect routine is run on its own (SpecEffects)                *)
(*   val, val2  loop()'s two samples of the button                         *)
(*   trace   what the current iteration of loop() has done so far          *)
(*   old     the globals as they were when the iteration began             *)
(*   hist    one record per finished iteration                             *)
(*   ticks   the number of finished iterations                             *)
(*   run     the routine run on its own, its loop variables and position   *)
(***************************************************************************)
VARIABLES pc, g_buttonState, g_effect, g_effectPrev, g_breatheCounter,
          g_rainbowCounter, strip, val, val2, trace, old, hist, ticks, run

vars == <<pc, g_buttonState, g_effect, g_effectPrev, g_breatheCounter,
          g_rainbowCounter, strip, val, val2, trace, old, hist, ticks, run>>

globals == <<g_buttonState, g_effect, g_effectPrev, g_breatheCounter,
             g_rainbowCounter, strip>>

Snapshot ==
    [g_buttonState |-> g_buttonState,
     g_effect |-> g_effect,
     g_effectPrev |-> g_effectPrev,
     g_breatheCounter |-> g_breatheCounter,
     g_rainbowCounter |-> g_rainbowCounter,
     brightness |-> strip.brightness]

\* call: the routine; at: its position; j, q, i: its loop variables; arg: the
\* counter or wheel position it was first given; c: the counter its last call
\* was given; n: the calls made; color: what Wheel returned
NoRun == [call |-> "none", at |-> "idle", j |-> 0, q |-> 0, i |-> 0, n |-> 0,
          arg |-> 0, c |-> 0, color |-> 0]

\* the globals as the C++ runtime initialises them, before setup()
InitGlobals(effect) ==
    /\ g_buttonState = 0
    /\ g_effect = effect
    /\ g_effectPrev = NUM_EFFECTS
    /\ g_breatheCounter = 0
    /\ g_rainbowCounter = 0
    /\ strip = StripNew

\* a sketch that starts in the first declared effect
InitialEffectFirst == EFFECT_BREATHE

\* int g_effect = EFFECT_RAINBOW;
InitialEffect == EFFECT_RAINBOW

Init ==
    /\ pc = "setup"
    /\ InitGlobals(InitialEffect)
    /\ val = LOW
    /\ val2 = LOW
    /\ trace = << >>
    /\ old = Snapshot
    /\ hist = << >>
    /\ ticks = 0
    /\ run = NoRun

(***************************************************************************)
(* setup(): set the brightness, read the button once, clear the LEDs.      *)
(***************************************************************************)
Setup ==
    /\ pc = "setup"
    /\ strip' = Show(SetBrightness(Enter(strip), PIXEL_BRIGHTNESS))
    /\ \E level \in Levels : g_buttonState' = level
    /\ pc' = "read"
    /\ UNCHANGED <<g_effect, g_effectPrev, g_breatheCounter, g_rainbowCounter,
                   val, val2, trace, old, hist, ticks, run>>

(***************************************************************************)
(* loop(), first part: the two samples of the button, 20 ms apart.         *)
(***************************************************************************)
Debounce ==
    /\ pc = "read"
    /\ ticks < MaxTicks
    /\ \E v \in Levels, v2 \in Levels : val' = v /\ val2' = v2
    /\ trace' = <<"read">>
    /\ old' = Snapshot
    /\ pc' = "advance"
    /\ UNCHANGED <<globals, hist, ticks, run>>

(***************************************************************************)
(* loop(), second part: on a press, the next mode; then the button state   *)
(* is saved.                                                               *)
(***************************************************************************)
\* a press test that forgets to compare the two samples
PressEdgeNoDebounce(v, v2, state) == (v # state) /\ (v = LOW)

PressEdge(v, v2, state) == (v = v2) /\ (v # state) /\ (v = LOW)

\* an advance that forgets to start over after the last mode
AdvanceNoWrap(effect) == effect + 1

\* an advance that tests for the last mode before it increments
AdvanceWrapLate(effect) ==
    IF effect = NUM_EFFECTS THEN 0 ELSE effect + 1

AdvanceEffect(effect) ==
    IF effect + 1 = NUM_EFFECTS THEN 0 ELSE effect + 1

SavedButtonState(v, v2, state) == v

ModeAdvance ==
    /\ pc = "advance"
    /\ IF PressEdge(val, val2, g_buttonState)
       THEN /\ g_effect' = AdvanceEffect(g_effect)
            /\ trace' = Append(trace, "advance")
       ELSE UNCHANGED <<g_effect, trace>>
    /\ g_buttonState' = SavedButtonState(val, val2, g_buttonState)
    /\ pc' = "init"
    /\ UNCHANGED <<g_effectPrev, g_breatheCounter, g_rainbowCounter, strip,
                   val, val2, old, hist, ticks, run>>

(***************************************************************************)
(* loop(), third part: what a mode needs done once, when it is entered.    *)
(***************************************************************************)
\* a mode test that takes every iteration for an entry
NewModeAlways(prev, effect) == TRUE

\* a mode test that never sees an entry
NewModeNever(prev, effect) == FALSE

NewMode(prev, effect) == prev # effect

EnterMode ==
    /\ pc = "init"
    /\ IF NewMode(g_effectPrev, g_effect)
       THEN /\ CASE g_effect = EFFECT_BREATHE ->
                      /\ g_breatheCounter' = BreatheCounterReset(g_breatheCounter)
                      /\ strip' = EffectBreatheInit(strip)
                      /\ trace' = Append(trace, "EffectBreatheInit")
                      /\ UNCHANGED g_rainbowCounter
                 [] g_effect = EFFECT_RAINBOW ->
                      /\ g_rainbowCounter' = RainbowCounterReset(g_rainbowCounter)
                      /\ strip' = EffectRainbowInit(strip)
                      /\ trace' = Append(trace, "EffectRainbowInit")
                      /\ UNCHANGED g_breatheCounter
                 [] OTHER ->
                      UNCHANGED <<g_breatheCounter, g_rainbowCounter, strip,
                                  trace>>
            /\ g_effectPrev' = g_effect
       ELSE UNCHANGED <<g_effectPrev, g_breatheCounter, g_rainbowCounter,
                        strip, trace>>
    /\ pc' = "step"
    /\ UNCHANGED <<g_buttonState, g_effect, val, val2, old, hist, ticks, run>>

(***************************************************************************)
(* loop(), fourth part: the mode's recurring action; an unknown mode is    *)
(* replaced by mode 0.  The iteration ends here.                           *)
(***************************************************************************)
\* effect: the mode the iteration dispatched on; effectAfter: g_effect as the
\* iteration leaves it; buttonState: g_buttonState as the iteration leaves it
\* breathe, rainbow: the counters as the step dispatch found them; pixels,
\* brightness: the strip as the iteration leaves it
TickRecord(tr, effectAfter, stripAfter) ==
    [val |-> val, val2 |-> val2, old |-> old, effect |-> g_effect,
     effectAfter |-> effectAfter, buttonState |-> g_buttonState, trace |-> tr,
     breathe |-> g_breatheCounter, rainbow |-> g_rainbowCounter,
     pixels |-> stripAfter.pixels, brightness |-> stripAfter.brightness]

\* a dispatch without its default branch
FaultKeep(effect) == effect

\* default: g_effect = 0;
FaultReset(effect) == 0

RunMode ==
    /\ pc = "step"
    /\ CASE g_effect = EFFECT_BREATHE ->
              /\ strip' = EffectBreatheStrip(strip, COLOR_RED, g_breatheCounter)
              /\ g_breatheCounter' = BreatheCounterNext(g_breatheCounter)
              /\ trace' = Append(trace, "EffectBreathe")
              /\ UNCHANGED <<g_rainbowCounter, g_effect>>
         [] g_effect = EFFECT_RAINBOW ->
              /\ strip' = EffectRainbowStrip(strip, g_rainbowCounter)
              /\ g_rainbowCounter' = RainbowCounterNext(g_rainbowCounter)
              /\ trace' = Append(trace, "EffectRainbow")
              /\ UNCHANGED <<g_breatheCounter, g_effect>>
         [] OTHER ->
              /\ g_effect' = FaultReset(g_effect)
              /\ trace' = Append(trace, "default")
              /\ UNCHANGED <<g_breatheCounter, g_rainbowCounter, strip>>
    /\ hist' = Append(hist, TickRecord(trace', g_effect', strip'))
    /\ ticks' = ticks + 1
    /\ pc' = "read"
    /\ UNCHANGED <<g_buttonState, g_effectPrev, val, val2, old, run>>

Next == Setup \/ Debounce \/ ModeAdvance \/ EnterMode \/ RunMode

Spec == Init /\ [][Next]_vars

(***************************************************************************)
(* The same sketch entered with any value of g_effect, to exercise the     *)
(* default branch of the mode dispatch, which Spec never reaches.          *)
(***************************************************************************)
FaultEffects == (0 - 1) .. (NUM_EFFECTS + 1)

InitFault ==
    /\ pc = "setup"
    /\ \E effect \in FaultEffects : InitGlobals(effect)
    /\ val = LOW
    /\ val2 = LOW
    /\ trace = << >>
    /\ old = Snapshot
    /\ hist = << >>
    /\ ticks = 0
    /\ run = NoRun

SpecFault == InitFault /\ [][Next]_vars

(***************************************************************************)
(* The effect routines run on their own, from the state setup() leaves.    *)
(* A one-frame routine (EffectBreathe, EffectRainbow) is called up to      *)
(* MaxCalls times in a row, starting from a counter value the sketch can   *)
(* have reached; a blocking routine is followed through its loops, one     *)
(* pass of the innermost loop body per step; Wheel is applied to every     *)
(* byte.                                                                   *)
(***************************************************************************)
InitHooks == {"EffectBreatheInit", "EffectRainbowInit"}

StepHooks == {"EffectBreathe", "EffectRainbow"}

BreathePhases == {0, 32768, 65535}

BlockingRoutines ==
    {"EffectColorWipe", "EffectRainbowCycle", "EffectTheaterChase",
     "EffectTheaterChaseRainbow"}

StripAfterSetup == Show(SetBrightness(Enter(StripNew), PIXEL_BRIGHTNESS))

InitEffects ==
    /\ pc = "call"
    /\ g_buttonState = HIGH
    /\ g_effect = EFFECT_RAINBOW
    /\ g_effectPrev = NUM_EFFECTS
    /\ strip = Enter(StripAfterSetup)
    /\ val = LOW
    /\ val2 = LOW
    /\ trace = << >>
    /\ hist = << >>
    /\ ticks = 0
    /\ \/ /\ \E r \in InitHooks : run = [NoRun EXCEPT !.call = r, !.at = "entry"]
          /\ g_breatheCounter = 0
          /\ g_rainbowCounter = 0
       \/ /\ \E r \in BlockingRoutines : run = [NoRun EXCEPT !.call = r, !.at = "on"]
          /\ g_breatheCounter = 0
          /\ g_rainbowCounter = 0
       \/ /\ g_breatheCounter \in BreathePhases
          /\ g_rainbowCounter = 0
          /\ run = [NoRun EXCEPT !.call = "EffectBreathe", !.at = "entry",
                                 !.arg = g_breatheCounter]
       \/ /\ g_breatheCounter = 0
          /\ g_rainbowCounter \in 0 .. 255
          /\ run = [NoRun EXCEPT !.call = "EffectRainbow", !.at = "entry",
                                 !.arg = g_rainbowCounter]
       \/ /\ g_breatheCounter = 0
          /\ g_rainbowCounter = 0
          /\ \E pos \in 0 .. 255 :
                run = [NoRun EXCEPT !.call = "Wheel", !.at = "entry", !.arg = pos]
    /\ old = Snapshot

loopState == <<pc, g_buttonState, g_effect, g_effectPrev, val, val2, trace,
               old, hist, ticks>>

CallInitHook ==
    /\ pc = "call"
    /\ run.at = "entry"
    /\ \/ /\ run.call = "EffectBreatheInit"
          /\ g_breatheCounter' = BreatheCounterReset(g_breatheCounter)
          /\ strip' = EffectBreatheInit(strip)
          /\ UNCHANGED g_rainbowCounter
       \/ /\ run.call = "EffectRainbowInit"
          /\ g_rainbowCounter' = RainbowCounterReset(g_rainbowCounter)
          /\ strip' = EffectRainbowInit(strip)
          /\ UNCHANGED g_breatheCounter
    /\ run' = [run EXCEPT !.at = "done", !.n = 1]
    /\ UNCHANGED loopState

CallBreathe ==
    /\ pc = "call"
    /\ run.call = "EffectBreathe"
    /\ run.n < MaxCalls
    /\ strip' = EffectBreatheStrip(strip, COLOR_RED, g_breatheCounter)
    /\ g_breatheCounter' = BreatheCounterNext(g_breatheCounter)
    /\ run' = [run EXCEPT !.at = "done", !.n = @ + 1, !.c = g_breatheCounter]
    /\ UNCHANGED <<loopState, g_rainbowCounter>>

CallRainbow ==
    /\ pc = "call"
    /\ run.call = "EffectRainbow"
    /\ run.n < MaxCalls
    /\ strip' = EffectRainbowStrip(strip, g_rainbowCounter)
    /\ g_rainbowCounter' = RainbowCounterNext(g_rainbowCounter)
    /\ run' = [run EXCEPT !.at = "done", !.n = @ + 1, !.c = g_rainbowCounter]
    /\ UNCHANGED <<loopState, g_breatheCounter>>

CallWheel ==
    /\ pc = "call"
    /\ run.call = "Wheel"
    /\ run.at = "entry"
    /\ run' = [run EXCEPT !.at = "done", !.n = 1, !.color = Wheel(run.arg)]
    /\ UNCHANGED <<loopState, g_breatheCounter, g_rainbowCounter, strip>>

\* EffectColorWipe(COLOR_RED, 50)
ColorWipeStep ==
    /\ pc = "call"
    /\ run.call = "EffectColorWipe"
    /\ run.at = "on"
    /\ IF run.i < NumPixels(strip)
       THEN /\ strip' = Show(SetPixelColor(strip, run.i, COLOR_RED))
            /\ run' = [run EXCEPT !.i = @ + 1]
       ELSE /\ run' = [run EXCEPT !.at = "done", !.n = 1]
            /\ UNCHANGED strip
    /\ UNCHANGED <<loopState, g_breatheCounter, g_rainbowCounter>>

\* an outer loop that runs once more
RainbowCycleLoopInclusive(j) == j <= 256 * 5

\* for (j = 0; j < 256 * 5; j++)
RainbowCycleLoop(j) == j < 256 * 5

\* EffectRainbowCycle(20): the inner loop body, or the end of the inner loop
RainbowCycleSet ==
    /\ pc = "call"
    /\ run.call = "EffectRainbowCycle"
    /\ run.at = "on"
    /\ RainbowCycleLoop(run.j)
    /\ run.i < NumPixels(strip)
    /\ strip' = SetPixelColor(strip, run.i,
                   Wheel((((run.i * 256) \div NumPixels(strip)) + run.j) % 256))
    /\ run' = [run EXCEPT !.i = @ + 1]
    /\ UNCHANGED <<loopState, g_breatheCounter, g_rainbowCounter>>

RainbowCycleShow ==
    /\ pc = "call"
    /\ run.call = "EffectRainbowCycle"
    /\ run.at = "on"
    /\ RainbowCycleLoop(run.j)
    /\ ~(run.i < NumPixels(strip))
    /\ strip' = Show(strip)
    /\ run' = [run EXCEPT !.i = 0, !.j = @ + 1]
    /\ UNCHANGED <<loopState, g_breatheCounter, g_rainbowCounter>>

RainbowCycleReturn ==
    /\ pc = "call"
    /\ run.call = "EffectRainbowCycle"
    /\ run.at = "on"
    /\ ~RainbowCycleLoop(run.j)
    /\ run' = [run EXCEPT !.at = "done", !.n = 1]
    /\ UNCHANGED <<loopState, g_breatheCounter, g_rainbowCounter, strip>>

\* EffectTheaterChase(COLOR_LIGHT_WHITE, 50) and EffectTheaterChaseRainbow(50):
\* j cycles, each of three offsets q; for an offset, every third pixel on,
\* show, every third pixel off.
\* a loop test that lets i reach the pixel count
ChaseLoopInclusive(i, s) == i <= NumPixels(s)

\* for (int i = 0; i < strip.numPixels(); i = i + 3)
ChaseLoop(i, s) == i < NumPixels(s)

ChaseCycles(call) == IF call = "EffectTheaterChase" THEN 10 ELSE 256

ChaseColor(call, i, j) ==
    IF call = "EffectTheaterChase" THEN COLOR_LIGHT_WHITE ELSE Wheel((i + j) % 255)

ChaseOn(call) ==
    /\ pc = "call"
    /\ run.call = call
    /\ run.at = "on"
    /\ IF ChaseLoop(run.i, strip)
       THEN /\ strip' = SetPixelColor(strip, run.i + run.q,
                                      ChaseColor(call, run.i, run.j))
            /\ run' = [run EXCEPT !.i = @ + 3]
       ELSE /\ strip' = Show(strip)
            /\ run' = [run EXCEPT !.at = "off", !.i = 0]
    /\ UNCHANGED <<loopState, g_breatheCounter, g_rainbowCounter>>

ChaseOff(call) ==
    /\ pc = "call"
    /\ run.call = call
    /\ run.at = "off"
    /\ IF ChaseLoop(run.i, strip)
       THEN /\ strip' = SetPixelColor(strip, run.i + run.q, 0)
            /\ run' = [run EXCEPT !.i = @ + 3]
       ELSE /\ UNCHANGED strip
            /\ run' = IF run.q + 1 < 3
                      THEN [run EXCEPT !.at = "on", !.i = 0, !.q = @ + 1]
                      ELSE IF run.j + 1 < ChaseCycles(call)
                           THEN [run EXCEPT !.at = "on", !.i = 0, !.q = 0,
                                            !.j = @ + 1]
                           ELSE [run EXCEPT !.at = "done", !.n = 1, !.q = 3,
                                            !.j = @ + 1]
    /\ UNCHANGED <<loopState, g_breatheCounter, g_rainbowCounter>>

TheaterChaseOn == ChaseOn("EffectTheaterChase")

TheaterChaseOff == ChaseOff("EffectTheaterChase")

TheaterChaseRainbowOn == ChaseOn("EffectTheaterChaseRainbow")

TheaterChaseRainbowOff == ChaseOff("EffectTheaterChaseRainbow")

NextEffects ==
    \/ CallInitHook
    \/ CallBreathe
    \/ CallRainbow
    \/ CallWheel
    \/ ColorWipeStep
    \/ RainbowCycleSet
    \/ RainbowCycleShow
    \/ RainbowCycleReturn
    \/ TheaterChaseOn
    \/ TheaterChaseOff
    \/ TheaterChaseRainbowOn
    \/ TheaterChaseRainbowOff

SpecEffects == InitEffects /\ [][NextEffects]_vars

(***************************************************************************)
(* One invocation of EffectRainbowCycle.  The sketch has a single thread   *)
(* of control and delay() returns, so a step that can be taken is taken.   *)
(***************************************************************************)
InitCycle == InitEffects /\ run.call = "EffectRainbowCycle"

NextCycle == RainbowCycleSet \/ RainbowCycleShow \/ RainbowCycleReturn

SpecCycle == InitCycle /\ [][NextCycle]_vars /\ WF_vars(NextCycle)

(***************************************************************************)
(* Reading a finished iteration's record.                                  *)
(***************************************************************************)
Has(tr, e) == \E k \in DOMAIN tr : tr[k] = e

Count(tr, e) == Cardinality({k \in DOMAIN tr : tr[k] = e})

Before(tr, a, b) == \E x \in DOMAIN tr, y \in DOMAIN tr : x < y /\ tr[x] = a /\ tr[y] = b

Advanced(r) == r.effect # r.old.g_effect

Samples(r) == <<r.val, r.val2>>

InitOf(effect) ==
    IF effect = EFFECT_BREATHE THEN "EffectBreatheInit" ELSE "EffectRainbowInit"

StepOf(effect) ==
    IF effect = EFFECT_BREATHE THEN "EffectBreathe" ELSE "EffectRainbow"

ValidEffects == {EFFECT_BREATHE, EFFECT_RAINBOW}

\* the place of an event in an iteration of loop()
Rank(e) ==
    CASE e = "read" -> 1
      [] e = "advance" -> 2
      [] e \in InitHooks -> 3
      [] OTHER -> 4

InOrder(tr) ==
    /\ tr # << >> => tr[1] = "read"
    /\ \A x \in DOMAIN tr, y \in DOMAIN tr : x < y => Rank(tr[x]) < Rank(tr[y])

(***************************************************************************)
(* C1.  An iteration of loop() advances the effect exactly when its two    *)
(* samples agree, read LOW, and g_buttonState was HIGH when it began; and  *)
(* the samples [high,high], [low,low], [high,high] from a recorded level   *)
(* high give exactly one advance, in the [low,low] iteration.              *)
(***************************************************************************)
C1_PressEdgeIff ==
    /\ \A k \in DOMAIN hist :
         LET r == hist[k]
         IN  /\ Advanced(r) <=>
                  (r.val = r.val2 /\ r.val = LOW /\ r.old.g_buttonState = HIGH)
             /\ Advanced(r) <=> Has(r.trace, "advance")
    /\ \A k \in DOMAIN hist :
         (/\ k + 2 <= Len(hist)
          /\ hist[k].old.g_buttonState = HIGH
          /\ Samples(hist[k]) = <<HIGH, HIGH>>
          /\ Samples(hist[k + 1]) = <<LOW, LOW>>
          /\ Samples(hist[k + 2]) = <<HIGH, HIGH>>)
         => (~Advanced(hist[k]) /\ Advanced(hist[k + 1]) /\ ~Advanced(hist[k + 2]))

C1_Witness ==
    \E k \in DOMAIN hist :
       /\ k + 3 <= Len(hist)
       /\ hist[k].old.g_buttonState = HIGH
       /\ Samples(hist[k]) = <<HIGH, HIGH>>
       /\ Samples(hist[k + 1]) = <<LOW, LOW>>
       /\ Samples(hist[k + 2]) = <<HIGH, HIGH>>
       /\ Advanced(hist[k + 1])
       /\ hist[k + 3].val # hist[k + 3].val2
       /\ ~Advanced(hist[k + 3])

(***************************************************************************)
(* C2.  An iteration whose two samples disagree leaves g_buttonState as it *)
(* was when the iteration began.                                           *)
(***************************************************************************)
C2_BounceKeepsButtonState ==
    \A k \in DOMAIN hist :
       hist[k].val # hist[k].val2 => hist[k].buttonState = hist[k].old.g_buttonState

(***************************************************************************)
(* C3.  A press edge moves the effect from i to (i + 1) mod NUM_EFFECTS,   *)
(* NUM_EFFECTS press edges bring it back to where it was, and an iteration *)
(* without a press edge leaves it alone.                                   *)
(***************************************************************************)
Edges(a, b) == Cardinality({t \in a .. b : Has(hist[t].trace, "advance")})

C3_CyclicAdvance ==
    /\ \A k \in DOMAIN hist :
         LET r == hist[k]
         IN  IF Has(r.trace, "advance")
             THEN /\ r.effect = (r.old.g_effect + 1) % NUM_EFFECTS
                  /\ r.effectAfter = r.effect
             ELSE r.effectAfter = r.old.g_effect
    /\ \A a \in DOMAIN hist, b \in DOMAIN hist :
         (a <= b /\ Edges(a, b) = NUM_EFFECTS)
         => hist[b].effectAfter = hist[a].old.g_effect

C3_Witness ==
    \E a \in DOMAIN hist, b \in DOMAIN hist :
       /\ a <= b
       /\ Edges(a, b) = NUM_EFFECTS
       /\ hist[a].old.g_effect = EFFECT_RAINBOW
       /\ hist[a].effectAfter = EFFECT_BREATHE
       /\ hist[b].effectAfter = EFFECT_RAINBOW

(***************************************************************************)
(* C4.  In a run of consecutive iterations in one effect, that effect's    *)
(* init hook runs once in the first iteration of the run and not at all in *)
(* the later ones, and no other init hook runs.                            *)
(***************************************************************************)
FirstOfRun(k) == k = 1 \/ hist[k - 1].effect # hist[k].effect

C4_InitOncePerRun ==
    \A k \in DOMAIN hist :
       LET r == hist[k]
       IN  /\ Count(r.trace, InitOf(r.effect)) = IF FirstOfRun(k) THEN 1 ELSE 0
           /\ \A h \in InitHooks \ {InitOf(r.effect)} : ~Has(r.trace, h)

C4_Witness ==
    \E k \in DOMAIN hist :
       /\ k + 3 <= Len(hist)
       /\ FirstOfRun(k)
       /\ ~FirstOfRun(k + 1)
       /\ ~FirstOfRun(k + 2)
       /\ FirstOfRun(k + 3)
       /\ Has(hist[k].trace, InitOf(hist[k].effect))
       /\ Has(hist[k + 3].trace, InitOf(hist[k + 3].effect))

(***************************************************************************)
(* C5.  In an iteration whose effect differs from the previous one's (the  *)
(* first iteration included) the effect's init hook runs before its step   *)
(* hook; the step hook that runs is the current effect's; and every        *)
(* iteration does its parts in the order read, advance, init, step.        *)
(***************************************************************************)
C5_InitBeforeStep ==
    /\ InOrder(trace)
    /\ \A k \in DOMAIN hist :
         LET r == hist[k]
         IN  /\ InOrder(r.trace)
             /\ Has(r.trace, StepOf(r.effect))
             /\ FirstOfRun(k) => Before(r.trace, InitOf(r.effect), StepOf(r.effect))

C5_Witness ==
    /\ Len(hist) >= 2
    /\ hist[1].trace = <<"read", "advance", "EffectBreatheInit", "EffectBreathe">>
    /\ hist[2].trace = <<"read", "EffectBreathe">>

(***************************************************************************)
(* C6.  An iteration that reaches the step dispatch with an effect outside *)
(* the declared set runs no step hook and leaves g_effect = 0, and the     *)
(* next iteration runs the first effect's init hook and then its step      *)
(* hook.  (As claimed: the next iteration is the first effect's whatever   *)
(* the button does.)                                                       *)
(***************************************************************************)
Faulted(r) == r.effect \notin ValidEffects

C7_IndexInRange == strip.idx \subseteq PixelIndex

C7_Witness ==
    /\ run.call = "EffectTheaterChase"
    /\ run.at = "on"
    /\ run.q = 2
    /\ run.i = 12
    /\ 11 \in strip.idx
    /\ strip.pixels[11] = COLOR_LIGHT_WHITE

(***************************************************************************)
(* C8.  A Rainbow step with hue offset c leaves pixel i = Wheel((i + c)    *)
(* mod 256) for every i, shows the buffer once, after the last pixel is    *)
(* set, and leaves the offset (c + 1) mod 256; 256 steps in a row bring    *)
(* the offset back to where it began.                                      *)
(***************************************************************************)
C8_RainbowStep ==
    (run.call = "EffectRainbow" /\ run.n > 0) =>
       /\ strip.pixels = [i \in PixelIndex |-> Wheel((i + run.c) % 256)]
       /\ strip.shown = strip.pixels
       /\ strip.flushes = 1
       /\ strip.dirty = {}
       /\ strip.idx = PixelIndex
       /\ g_rainbowCounter = (run.c + 1) % 256
       /\ g_rainbowCounter \in 0 .. 255
       /\ run.n = 256 => g_rainbowCounter = run.arg

C8_Witness ==
    /\ run.call = "EffectRainbow"
    /\ run.n = 256
    /\ run.arg = 200
    /\ run.c = 199
    /\ g_rainbowCounter = 200
    /\ strip.pixels[11] = Wheel(210)

(***************************************************************************)
(* C9.  A Breathe step leaves every pixel the breathe colour, shows the    *)
(* buffer once, after the fill, and adds one to the phase modulo 65536; a  *)
(* step from phase 0 sets the brightness to 127 and leaves phase 1.        *)
(***************************************************************************)
C9_BreatheStep ==
    (run.call = "EffectBreathe" /\ run.n > 0) =>
       /\ strip.pixels = [i \in PixelIndex |-> COLOR_RED]
       /\ strip.shown = strip.pixels
       /\ strip.flushes = 1
       /\ strip.dirty = {}
       /\ g_breatheCounter = (run.c + 1) % 65536
       /\ g_breatheCounter \in 0 .. 65535
       /\ run.c = 0 => (strip.brightness = 127 /\ g_breatheCounter = 1)

C9_Witness ==
    /\ run.call = "EffectBreathe"
    /\ run.arg = 65535
    /\ run.n = 2
    /\ run.c = 0
    /\ strip.brightness = 127
    /\ g_breatheCounter = 1

(***************************************************************************)
(* C10.  For every position 0 .. 255, exactly one channel of Wheel is 0    *)
(* and the other two sum to 255 within 3.  (As claimed.)                   *)
(***************************************************************************)
Channels(c) == <<Red(c), Green(c), Blue(c)>>

Zeros(c) == {k \in 1 .. 3 : Channels(c)[k] = 0}

ChannelSum(c) == Red(c) + Green(c) + Blue(c)

WheelDone == run.call = "Wheel" /\ run.at = "done"

C10_ExactlyOneZero ==
    WheelDone =>
       /\ Cardinality(Zeros(run.color)) = 1
       /\ ChannelSum(run.color) \in 252 .. 258

(***************************************************************************)
(* C10, amended.  For every position 0 .. 255, at least one channel of     *)
(* Wheel is 0 and the channels sum to 255; exactly one channel is 0,       *)
(* except at the positions 0, 85, 170 and 255, where two are (the colour   *)
(* is pure green, red, blue and green).                                    *)
(***************************************************************************)
C10_ZeroChannelAndSum ==
    WheelDone =>
       /\ ChannelSum(run.color) = 255
       /\ Cardinality(Zeros(run.color)) =
             IF run.arg \in {0, 85, 170, 255} THEN 2 ELSE 1
       /\ \A k \in 1 .. 3 : Channels(run.color)[k] \in 0 .. 255

C10_Witness ==
    /\ WheelDone
    /\ run.arg = 85
    /\ Channels(run.color) = <<255, 0, 0>>

(***************************************************************************)
(* C11.  For every position p in 0 .. 255, each channel of Wheel(p) and of *)
(* Wheel((p + 1) mod 256) differ by at most 3: inside the bands, across    *)
(* the band boundaries 84/85 and 169/170, and across the wrap 255/0.       *)
(***************************************************************************)
Dist(a, b) == IF a < b THEN b - a ELSE a - b

C11_WheelContinuous ==
    WheelDone =>
       LET next == Wheel((run.arg + 1) % 256)
       IN  \A k \in 1 .. 3 : Dist(Channels(run.color)[k], Channels(next)[k]) <= 3

C11_Witness ==
    /\ WheelDone
    /\ run.arg = 169
    /\ Channels(run.color) = <<3, 0, 252>>
    /\ Channels(Wheel(170)) = <<0, 0, 255>>

(***************************************************************************)
(* C15.  For every position in 0 .. 255, the three values Wheel computes   *)
(* for the channels lie in 0 .. 255, so cutting them to 8 bits changes     *)
(* nothing and the packed colour is made of exactly these values.          *)
(***************************************************************************)
C15_WheelNoOverflow ==
    WheelDone =>
       LET raw == WheelRaw(run.arg)
       IN  /\ \A k \in 1 .. 3 : raw[k] \in 0 .. 255
           /\ Channels(run.color) = raw
           /\ run.color \in 0 .. 16777215

C15_Witness ==
    /\ WheelDone
    /\ run.arg = 255
    /\ WheelRaw(run.arg) = <<0, 255, 0>>
    /\ run.color = 65280

(***************************************************************************)
(* C12.  In the first iteration of a run in an effect, the step hook finds *)
(* the effect's counter at 0, whatever an earlier visit left in it: the    *)
(* phase for Breathe, the hue offset for Rainbow, whose first frame is     *)
(* therefore pixel i = Wheel(i).                                           *)
(***************************************************************************)
C12_CountersResetOnEntry ==
    \A k \in DOMAIN hist :
       LET r == hist[k]
       IN  FirstOfRun(k) =>
              /\ r.effect = EFFECT_BREATHE =>
                    (Has(r.trace, "EffectBreathe") /\ r.breathe = 0)
              /\ r.effect = EFFECT_RAINBOW =>
                    /\ Has(r.trace, "EffectRainbow")
                    /\ r.rainbow = 0
                    /\ r.pixels = [i \in PixelIndex |-> Wheel(i)]

C12_Witness ==
    \E k \in DOMAIN hist :
       /\ k > 1
       /\ FirstOfRun(k)
       /\ hist[k].effect = EFFECT_RAINBOW
       /\ hist[k].old.g_rainbowCounter > 0
       /\ hist[k].old.g_breatheCounter > 0
       /\ hist[k].rainbow = 0
       /\ hist[k].pixels[11] = Wheel(11)

(***************************************************************************)
(* C13.  One invocation of EffectRainbowCycle with 12 pixels returns, and  *)
(* when it returns it has shown the buffer exactly 256 * 5 = 1280 times,   *)
(* each time after writing all 12 pixels.                                  *)
(***************************************************************************)
CycleReturned == run.call = "EffectRainbowCycle" /\ run.at = "done"

C13_RainbowCycleFlushes ==
    /\ <>CycleReturned
    /\ [](CycleReturned => strip.flushes = 1280)
    /\ [](strip.fullFlushes = strip.flushes /\ strip.flushes <= 1280)

C13_Witness ==
    /\ CycleReturned
    /\ run.j = 1280
    /\ strip.flushes = 1280
    /\ strip.fullFlushes = 1280
    /\ strip.pixels[11] = Wheel((((11 * 256) \div 12) + 1279) % 256)

(***************************************************************************)
(* C14.  After setup and before any press edge the current effect is the   *)
(* first declared one, EFFECT_BREATHE, and the first init hook and step    *)
(* hook that run are that effect's.  (As claimed.)                         *)
(***************************************************************************)
NoPressYet ==
    /\ ~Has(trace, "advance")
    /\ \A k \in DOMAIN hist : ~Has(hist[k].trace, "advance")

C14_StartsInFirstEffect ==
    (pc # "setup" /\ NoPressYet) =>
       /\ g_effect = EFFECT_BREATHE
       /\ Len(hist) >= 1 => hist[1].trace = <<"read", "EffectBreatheInit", "EffectBreathe">>

(***************************************************************************)
(* C14, amended.  After setup and before any press edge the current effect *)
(* is the one g_effect is initialised to, EFFECT_RAINBOW, the second       *)
(* declared; the first hooks that run are EffectRainbowInit and then       *)
(* EffectRainbow, unless the first iteration reports a press edge, when    *)
(* they are EffectBreatheInit and then EffectBreathe.                      *)
(***************************************************************************)
C14_StartsInRainbow ==
    /\ (pc # "setup" /\ NoPressYet) => g_effect = EFFECT_RAINBOW
    /\ Len(hist) >= 1 =>
          hist[1].trace =
             IF Has(hist[1].trace, "advance")
             THEN <<"read", "advance", "EffectBreatheInit", "EffectBreathe">>
             ELSE <<"read", "EffectRainbowInit", "EffectRainbow">>

C14_Witness ==
    /\ Len(hist) >= 2
    /\ NoPressYet
    /\ g_effect = EFFECT_RAINBOW
    /\ hist[1].old.g_effectPrev = NUM_EFFECTS
    /\ hist[1].trace = <<"read", "EffectRainbowInit", "EffectRainbow">>
    /\ hist[2].trace = <<"read", "EffectRainbow">>

(***************************************************************************)
(* C16.  If the last iteration whose samples agreed read HIGH, an          *)
(* iteration whose samples both read LOW advances the effect, however many *)
(* iterations with disagreeing samples lie in between.                     *)
(***************************************************************************)
Bounce(r) == r.val # r.val2

LastAgreedHigh(k) ==
    \E m \in DOMAIN hist :
       /\ m < k
       /\ Samples(hist[m]) = <<HIGH, HIGH>>
       /\ \A t \in (m + 1) .. (k - 1) : Bounce(hist[t])

C16_PressNotMissed ==
    \A k \in DOMAIN hist :
       (Samples(hist[k]) = <<LOW, LOW>> /\ LastAgreedHigh(k))
       => Has(hist[k].trace, "advance")

(***************************************************************************)
(* C17.  Between two iterations that report a press edge there is one      *)
(* whose samples agree on HIGH.                                            *)
(***************************************************************************)
C17_OneAdvancePerPress ==
    \A a \in DOMAIN hist, b \in DOMAIN hist :
       (a < b /\ Has(hist[a].trace, "advance") /\ Has(hist[b].trace, "advance"))
       => \E t \in (a + 1) .. (b - 1) : Samples(hist[t]) = <<HIGH, HIGH>>

(***************************************************************************)
(* C18.  From setup on, whatever the button does, g_effect is one of       *)
(* 0 .. NUM_EFFECTS - 1, every iteration ends with g_effectPrev equal to   *)
(* g_effect, and the default branch of the step dispatch is never taken.   *)
(***************************************************************************)
C18_EffectStaysValid ==
    /\ g_effect \in 0 .. (NUM_EFFECTS - 1)
    /\ (pc = "read" /\ ticks > 0) => g_effectPrev = g_effect
    /\ ~Has(trace, "default")
    /\ \A k \in DOMAIN hist :
          /\ ~Has(hist[k].trace, "default")
          /\ hist[k].effect \in 0 .. (NUM_EFFECTS - 1)
          /\ hist[k].effectAfter = hist[k].effect

C18_Witness ==
    /\ pc = "read"
    /\ Len(hist) >= 3
    /\ Edges(1, Len(hist)) = NUM_EFFECTS
    /\ hist[1].old.g_effectPrev = NUM_EFFECTS
    /\ g_effect = EFFECT_RAINBOW
    /\ g_effectPrev = EFFECT_RAINBOW

(***************************************************************************)
(* C19.  After setup the brightness is written by the Breathe step alone:  *)
(* reading the button, the mode advance, both init hooks and the Rainbow   *)
(* step leave it as it is.  An iteration in Rainbow therefore ends with    *)
(* the brightness of the last Breathe step before it, or with              *)
(* PIXEL_BRIGHTNESS if there was none.                                     *)
(***************************************************************************)
BreatheTicksBefore(k) == {t \in 1 .. (k - 1) : hist[t].effect = EFFECT_BREATHE}

LastOf(S) == CHOOSE t \in S : \A u \in S : u <= t

C19_BrightnessOnlyByBreathe ==
    /\ pc \in {"advance", "init", "step"} => strip.brightness = old.brightness
    /\ (pc = "read" /\ ticks = 0) => strip.brightness = PIXEL_BRIGHTNESS
    /\ \A k \in DOMAIN hist :
          LET r == hist[k]
          IN  /\ r.effect = EFFECT_BREATHE => r.brightness = BreatheIntensity(r.breathe)
              /\ r.effect = EFFECT_RAINBOW =>
                    /\ r.brightness = r.old.brightness
                    /\ r.brightness =
                          IF BreatheTicksBefore(k) = {}
                          THEN PIXEL_BRIGHTNESS
                          ELSE hist[LastOf(BreatheTicksBefore(k))].brightness

C19_Witness ==
    \E k \in DOMAIN hist :
       /\ k > 2
       /\ hist[k - 2].effect = EFFECT_BREATHE
       /\ hist[k - 1].effect = EFFECT_RAINBOW
       /\ Has(hist[k - 1].trace, "EffectRainbowInit")
       /\ hist[k].effect = EFFECT_RAINBOW
       /\ hist[k].brightness = hist[k - 2].brightness
       /\ hist[k].brightness # PIXEL_BRIGHTNESS
       /\ strip.brightness = hist[k].brightness

=============================================================================
